---- MODULE Spec2Model ----
(***************************************************************************)
(* Model of scripts/local_cloudbuild.py: the translation of a              *)
(* cloudbuild.yaml recipe into a shell script of docker commands.          *)
(*                                                                         *)
(* A Python str is a sequence of one-character strings.  A dict is a       *)
(* sequence of [k, v] entries with distinct keys, in insertion order.      *)
(***************************************************************************)
EXTENDS Integers, Sequences, FiniteSets, TLC

VARIABLES
    pc,            \* position of local_cloudbuild
    args,          \* argparse.Namespace: config, output_script, run, substitutions
    raw_config,    \* what yaml.safe_load returns
    cloudbuild,    \* the CloudBuild returned by get_cloudbuild
    contents,      \* the text returned by generate_script
    outfile,       \* the file at args.output_script
    children,      \* number of child processes started
    exits,         \* the exit statuses of the children that have exited
    failure,       \* the exception that ended the run
    call_s,        \* sub_and_quote call: argument s
    call_subs,     \* sub_and_quote call: argument substitutions
    call_used,     \* sub_and_quote call: substitutions_used before the call
    call_result    \* sub_and_quote call: its outcome

vars == <<pc, args, raw_config, cloudbuild, contents, outfile, children,
          exits, failure, call_s, call_subs, call_used, call_result>>

call_vars == <<call_s, call_subs, call_used, call_result>>

(***************************************************************************)
(* Bounds                                                                  *)
(***************************************************************************)
MaxLen == 4        \* longest string handed to sub_and_quote on its own
MaxSteps == 2      \* most steps in a recipe

(***************************************************************************)
(* Strings                                                                 *)
(***************************************************************************)
Upper == {"A", "B", "C", "D", "E", "F", "G", "H", "I", "J", "K", "L", "M",
          "N", "O", "P", "Q", "R", "S", "T", "U", "V", "W", "X", "Y", "Z"}

Lower == {"a", "b", "c", "d", "e", "f", "g", "h", "i", "j", "k", "l", "m",
          "n", "o", "p", "q", "r", "s", "t", "u", "v", "w", "x", "y", "z"}

Digit == {"0", "1", "2", "3", "4", "5", "6", "7", "8", "9"}

\* [A-Z_]
NameStart == Upper \cup {"_"}

\* [A-Z0-9_]
NameChar == Upper \cup Digit \cup {"_"}

\* The characters of a variable name in code point order
CodePoints == <<"0", "1", "2", "3", "4", "5", "6", "7", "8", "9",
                "A", "B", "C", "D", "E", "F", "G", "H", "I", "J", "K", "L",
                "M", "N", "O", "P", "Q", "R", "S", "T", "U", "V", "W", "X",
                "Y", "Z", "_">>

ord(c) == CHOOSE i \in 1..Len(CodePoints) : CodePoints[i] = c

\* Python's str comparison a < b, on variable names
RECURSIVE str_lt(_, _)
str_lt(a, b) ==
    IF b = <<>> THEN FALSE
    ELSE IF a = <<>> THEN TRUE
    ELSE IF Head(a) = Head(b) THEN str_lt(Tail(a), Tail(b))
    ELSE ord(Head(a)) < ord(Head(b))

RECURSIVE concat(_)
concat(parts) ==
    IF parts = <<>> THEN <<>> ELSE Head(parts) \o concat(Tail(parts))

\* sep.join(parts)
RECURSIVE join(_, _)
join(sep, parts) ==
    IF parts = <<>> THEN <<>>
    ELSE IF Len(parts) = 1 THEN parts[1]
    ELSE parts[1] \o sep \o join(sep, Tail(parts))

\* sorted(names)
RECURSIVE insert_sorted(_, _)
insert_sorted(name, names) ==
    IF names = <<>> THEN <<name>>
    ELSE IF str_lt(Head(names), name)
         THEN <<Head(names)>> \o insert_sorted(name, Tail(names))
         ELSE <<name>> \o names

RECURSIVE sorted(_)
sorted(names) ==
    IF names = <<>> THEN <<>>
    ELSE insert_sorted(Head(names), sorted(Tail(names)))

(***************************************************************************)
(* dict                                                                    *)
(***************************************************************************)
dict_keys(d) == [i \in 1..Len(d) |-> d[i].k]

dict_has(d, key) == \E i \in 1..Len(d) : d[i].k = key

dict_get(d, key) == d[CHOOSE i \in 1..Len(d) : d[i].k = key].v

(***************************************************************************)
(* Exceptions.  Every one raised in this file is a ValueError; kind tells  *)
(* the messages apart and names holds the variable names of the message.   *)
(***************************************************************************)
NoError == [kind |-> "none", names |-> <<>>]

ValueError(kind, names) == [kind |-> kind, names |-> names]

(***************************************************************************)
(* shlex.quote                                                             *)
(***************************************************************************)
\* the complement of shlex's _find_unsafe class [^\w@%+=:,./-]
SafeChars == Upper \cup Lower \cup Digit \cup
             {"_", "@", "%", "+", "=", ":", ",", ".", "/", "-"}

RECURSIVE replace_quotes(_)
replace_quotes(s) ==
    IF s = <<>> THEN <<>>
    ELSE (IF Head(s) = "'" THEN <<"'", "\"", "'", "\"", "'">> ELSE <<Head(s)>>)
         \o replace_quotes(Tail(s))

shlex_quote(s) ==
    IF s = <<>> THEN <<"'", "'">>
    ELSE IF \A i \in 1..Len(s) : s[i] \in SafeChars THEN s
    ELSE <<"'">> \o replace_quotes(s) \o <<"'">>

(***************************************************************************)
(* SUBSTITUTION_REGEX and sub_and_quote                                    *)
(***************************************************************************)
\* the end of the longest run of [A-Z0-9_] that starts at s[j]
RECURSIVE name_end(_, _)
name_end(s, j) ==
    IF j + 1 <= Len(s) /\ s[j + 1] \in NameChar THEN name_end(s, j + 1) ELSE j

NoMatch(i) == [matched |-> FALSE, group |-> <<>>, last |-> i]

\* the match of "$" and a name without curly brackets that ends at s[e]
match_plain(s, i, e) ==
    [matched |-> TRUE, group |-> SubSeq(s, i + 1, e), last |-> e]

\* the match of "$", "{" and a name that ends at s[e], if "}" follows
match_curly(s, i, e) ==
    IF e + 1 <= Len(s) /\ s[e + 1] = "}"
    THEN [matched |-> TRUE, group |-> SubSeq(s, i + 1, e + 1), last |-> e + 1]
    ELSE NoMatch(i)

\* SUBSTITUTION_REGEX matched at s[i]: group is match.group(1), last the
\* index of the match's last character
SUBSTITUTION_REGEX(s, i) ==
    IF s[i] # "$" \/ i + 1 > Len(s) THEN NoMatch(i)
    ELSE IF s[i + 1] \in NameStart
    THEN match_plain(s, i, name_end(s, i + 1))
    ELSE IF s[i + 1] = "{" /\ i + 2 <= Len(s) /\ s[i + 2] \in NameStart
    THEN match_curly(s, i, name_end(s, i + 2))
    ELSE IF s[i + 1] = "$"
    THEN [matched |-> TRUE, group |-> <<"$">>, last |-> i + 1]
    ELSE NoMatch(i)

\* lines 131-133
strip_curly(group) ==
    IF group[1] = "{" THEN SubSeq(group, 2, Len(group) - 1) ELSE group

\* the nested function sub from line 134 on, with an undefined variable
\* read as the empty string
sub_blank(variable_name, substitutions, substitutions_used) ==
    IF variable_name = <<"$">>
    THEN [err |-> NoError, value |-> <<"$">>,
          used |-> substitutions_used \cup {variable_name}]
    ELSE IF ~dict_has(substitutions, variable_name)
    THEN [err |-> NoError, value |-> <<>>,
          used |-> substitutions_used \cup {variable_name}]
    ELSE [err |-> NoError, value |-> dict_get(substitutions, variable_name),
          used |-> substitutions_used \cup {variable_name}]

\* the nested function sub from line 134 on: err is NoError and value the
\* replacement, or err is the exception; used is substitutions_used after
sub(variable_name, substitutions, substitutions_used) ==
    IF variable_name = <<"$">>
    THEN [err |-> NoError, value |-> <<"$">>,
          used |-> substitutions_used \cup {variable_name}]
    ELSE IF ~dict_has(substitutions, variable_name)
    THEN [err |-> ValueError("undefined", <<variable_name>>), value |-> <<>>,
          used |-> substitutions_used]
    ELSE [err |-> NoError, value |-> dict_get(substitutions, variable_name),
          used |-> substitutions_used \cup {variable_name}]

\* re.sub(SUBSTITUTION_REGEX, sub, s) from s[i] on, out being the text so far
RECURSIVE re_sub(_, _, _, _, _)
RECURSIVE re_sub_match(_, _, _, _, _, _)
RECURSIVE re_sub_replace(_, _, _, _, _)
re_sub(s, i, substitutions, substitutions_used, out) ==
    IF i > Len(s)
    THEN [err |-> NoError, text |-> out, used |-> substitutions_used]
    ELSE re_sub_match(s, i, substitutions, substitutions_used, out,
                      SUBSTITUTION_REGEX(s, i))

\* re.sub at s[i], m being the outcome of the match there
re_sub_match(s, i, substitutions, substitutions_used, out, m) ==
    IF ~m.matched
    THEN re_sub(s, i + 1, substitutions, substitutions_used,
                Append(out, s[i]))
    ELSE re_sub_replace(s, m.last + 1, substitutions, out,
                        sub(strip_curly(m.group), substitutions,
                            substitutions_used))

\* re.sub after a match, r being what sub returned for it
re_sub_replace(s, i, substitutions, out, r) ==
    IF r.err # NoError
    THEN [err |-> r.err, text |-> <<>>, used |-> r.used]
    ELSE re_sub(s, i, substitutions, r.used, out \o r.value)

\* line 147, r being the outcome of line 146
quote_substituted(r) ==
    IF r.err # NoError THEN r
    ELSE [err |-> NoError, text |-> shlex_quote(r.text), used |-> r.used]

\* err is NoError and text the quoted string, or err is the exception;
\* used is substitutions_used after the call either way
sub_and_quote(s, substitutions, substitutions_used) ==
    quote_substituted(re_sub(s, 1, substitutions, substitutions_used, <<>>))

(***************************************************************************)
(* The deserialized recipe.  A node of the tree yaml.safe_load returns is  *)
(* [tag |-> "dict", dict |-> a function on its keys],                      *)
(* [tag |-> "list", list |-> a sequence of nodes],                         *)
(* [tag |-> "str", str |-> a string] or [tag |-> "int", int |-> a number]. *)
(***************************************************************************)
RawDict(d) == [tag |-> "dict", dict |-> d]

RawList(l) == [tag |-> "list", list |-> l]

RawStr(s) == [tag |-> "str", str |-> s]

RawInt(n) == [tag |-> "int", int |-> n]

\* validation_utils.get_field_value: the field's value when it has the
\* expected type, field_type() when the field is absent, an error otherwise
get_field_value(container, field_name, field_type) ==
    IF field_name \notin DOMAIN container
    THEN [err |-> NoError, value |-> <<>>]
    ELSE IF container[field_name].tag = field_type
    THEN [err |-> NoError, value |-> container[field_name][field_type]]
    ELSE [err |-> ValueError("type", <<>>), value |-> <<>>]

\* [get_field_value(raw_list, index, str) for index in range(len(raw_list))]
RECURSIVE get_str_fields(_, _)
get_str_fields(raw_list, index) ==
    IF index > Len(raw_list) THEN [err |-> NoError, value |-> <<>>]
    ELSE LET f == get_field_value(raw_list, index, "str") IN
         IF f.err # NoError THEN f
         ELSE LET rest == get_str_fields(raw_list, index + 1) IN
              IF rest.err # NoError THEN rest
              ELSE [err |-> NoError, value |-> <<f.value>> \o rest.value]

Step(args_, dir_, env, name) ==
    [args |-> args_, dir_ |-> dir_, env |-> env, name |-> name]

NoStep == Step(<<>>, <<>>, <<>>, <<>>)

get_step(raw_step) ==
    IF raw_step.tag # "dict"
    THEN [err |-> ValueError("type", <<>>), step |-> NoStep]
    ELSE
    LET raw_args == get_field_value(raw_step.dict, "args", "list") IN
    IF raw_args.err # NoError THEN [err |-> raw_args.err, step |-> NoStep]
    ELSE
    LET args_ == get_str_fields(raw_args.value, 1) IN
    IF args_.err # NoError THEN [err |-> args_.err, step |-> NoStep]
    ELSE
    LET dir_ == get_field_value(raw_step.dict, "dir", "str") IN
    IF dir_.err # NoError THEN [err |-> dir_.err, step |-> NoStep]
    ELSE
    LET raw_env == get_field_value(raw_step.dict, "env", "list") IN
    IF raw_env.err # NoError THEN [err |-> raw_env.err, step |-> NoStep]
    ELSE
    LET env == get_str_fields(raw_env.value, 1) IN
    IF env.err # NoError THEN [err |-> env.err, step |-> NoStep]
    ELSE
    LET name == get_field_value(raw_step.dict, "name", "str") IN
    IF name.err # NoError THEN [err |-> name.err, step |-> NoStep]
    ELSE [err |-> NoError,
          step |-> Step(args_.value, dir_.value, env.value, name.value)]

\* [get_step(raw_step) for raw_step in raw_steps]
RECURSIVE get_steps(_)
get_steps(raw_steps) ==
    IF raw_steps = <<>> THEN [err |-> NoError, steps |-> <<>>]
    ELSE LET first == get_step(Head(raw_steps)) IN
         IF first.err # NoError THEN [err |-> first.err, steps |-> <<>>]
         ELSE LET rest == get_steps(Tail(raw_steps)) IN
              IF rest.err # NoError THEN rest
              ELSE [err |-> NoError, steps |-> <<first.step>> \o rest.steps]

CloudBuild(output_script, run, steps, substitutions) ==
    [output_script |-> output_script, run |-> run, steps |-> steps,
     substitutions |-> substitutions]

NoCloudBuild == CloudBuild("", FALSE, <<>>, <<>>)

\* get_cloudbuild without the test for an empty list of steps
get_cloudbuild_any_steps(raw, flags) ==
    IF raw.tag # "dict"
    THEN [err |-> ValueError("type", <<>>), cloudbuild |-> NoCloudBuild]
    ELSE
    LET raw_steps == get_field_value(raw.dict, "steps", "list") IN
    IF raw_steps.err # NoError
    THEN [err |-> raw_steps.err, cloudbuild |-> NoCloudBuild]
    ELSE
    LET steps == get_steps(raw_steps.value) IN
    IF steps.err # NoError
    THEN [err |-> steps.err, cloudbuild |-> NoCloudBuild]
    ELSE [err |-> NoError,
          cloudbuild |-> CloudBuild(flags.output_script, flags.run,
                                    steps.steps, flags.substitutions)]

get_cloudbuild(raw, flags) ==
    IF raw.tag # "dict"
    THEN [err |-> ValueError("type", <<>>), cloudbuild |-> NoCloudBuild]
    ELSE
    LET raw_steps == get_field_value(raw.dict, "steps", "list") IN
    IF raw_steps.err # NoError
    THEN [err |-> raw_steps.err, cloudbuild |-> NoCloudBuild]
    ELSE IF raw_steps.value = <<>>
    THEN [err |-> ValueError("no_steps", <<>>), cloudbuild |-> NoCloudBuild]
    ELSE
    LET steps == get_steps(raw_steps.value) IN
    IF steps.err # NoError
    THEN [err |-> steps.err, cloudbuild |-> NoCloudBuild]
    ELSE [err |-> NoError,
          cloudbuild |-> CloudBuild(flags.output_script, flags.run,
                                    steps.steps, flags.substitutions)]

(***************************************************************************)
(* Constants of the file                                                   *)
(***************************************************************************)
DEFAULT_SUBSTITUTIONS == <<
    [k |-> <<"B", "R", "A", "N", "C", "H", "_", "N", "A", "M", "E">>,
     v |-> <<>>],
    [k |-> <<"B", "U", "I", "L", "D", "_", "I", "D">>,
     v |-> <<"a", "b", "c", "d", "e", "f", "1", "2", "-", "3", "4", "5", "6", "-", "7", "8", "9", "0", "-", "a", "b", "c", "d", "-", "e", "f", "0", "1", "2", "3", "4", "5", "6", "7", "8", "9">>],
    [k |-> <<"C", "O", "M", "M", "I", "T", "_", "S", "H", "A">>,
     v |-> <<>>],
    [k |-> <<"P", "R", "O", "J", "E", "C", "T", "_", "I", "D">>,
     v |-> <<"d", "u", "m", "m", "y", "-", "p", "r", "o", "j", "e", "c", "t", "-", "i", "d">>],
    [k |-> <<"R", "E", "P", "O", "_", "N", "A", "M", "E">>,
     v |-> <<>>],
    [k |-> <<"R", "E", "V", "I", "S", "I", "O", "N", "_", "I", "D">>,
     v |-> <<>>],
    [k |-> <<"T", "A", "G", "_", "N", "A", "M", "E">>,
     v |-> <<>>]>>

DEBIAN_IMAGE == <<"g", "c", "r", ".", "i", "o", "/", "g", "o", "o", "g", "l", "e", "-", "a", "p", "p", "e", "n", "g", "i", "n", "e", "/", "d", "e", "b", "i", "a", "n", "8">>

WORKSPACE == <<"/", "w", "o", "r", "k", "s", "p", "a", "c", "e">>

\* the tokens of every command up to the value of --workdir
DOCKER_RUN == <<
    <<"d", "o", "c", "k", "e", "r">>,
    <<"r", "u", "n">>,
    <<"-", "-", "v", "o", "l", "u", "m", "e">>,
    <<"/", "v", "a", "r", "/", "r", "u", "n", "/", "d", "o", "c", "k", "e", "r", ".", "s", "o", "c", "k", ":", "/", "v", "a", "r", "/", "r", "u", "n", "/", "d", "o", "c", "k", "e", "r", ".", "s", "o", "c", "k">>,
    <<"-", "-", "v", "o", "l", "u", "m", "e">>,
    <<"/", "r", "o", "o", "t", "/", ".", "d", "o", "c", "k", "e", "r", ":", "/", "r", "o", "o", "t", "/", ".", "d", "o", "c", "k", "e", "r">>,
    <<"-", "-", "v", "o", "l", "u", "m", "e">>,
    <<"$", "{", "H", "O", "S", "T", "_", "W", "O", "R", "K", "S", "P", "A", "C", "E", "}", ":", "/", "w", "o", "r", "k", "s", "p", "a", "c", "e">>,
    <<"-", "-", "w", "o", "r", "k", "d", "i", "r">>>>

ENV_FLAG == <<"-", "-", "e", "n", "v">>

\* BUILD_SCRIPT_TEMPLATE.format(cleanup_str=..., docker_str=...).  The fixed
\* text of the template is left out: cleanup_str is the text put in the body
\* of the function cleanup that `trap cleanup EXIT` installs, docker_str the
\* text put between "# Build commands" and "# End of build commands".
BUILD_SCRIPT_TEMPLATE(cleanup_str, docker_str) ==
    [cleanup_str |-> cleanup_str, docker_str |-> docker_str]

(***************************************************************************)
(* generate_command                                                        *)
(***************************************************************************)
\* os.path.join(a, b) on POSIX
os_path_join(a, b) ==
    IF b # <<>> /\ b[1] = "/" THEN b
    ELSE IF a = <<>> \/ a[Len(a)] = "/" THEN a \o b
    ELSE a \o <<"/">> \o b

\* sub_and_quote applied to the strings of strs in turn; texts holds the
\* quoted strings so far
RECURSIVE sub_and_quote_all(_, _, _, _)
RECURSIVE sub_and_quote_rest(_, _, _, _)
sub_and_quote_all(strs, substitutions, substitutions_used, texts) ==
    IF strs = <<>>
    THEN [err |-> NoError, texts |-> texts, used |-> substitutions_used]
    ELSE sub_and_quote_rest(Tail(strs), substitutions, texts,
             sub_and_quote(Head(strs), substitutions, substitutions_used))

\* the same after the call of sub_and_quote that returned q
sub_and_quote_rest(strs, substitutions, texts, q) ==
    IF q.err # NoError
    THEN [err |-> q.err, texts |-> <<>>, used |-> q.used]
    ELSE sub_and_quote_all(strs, substitutions, q.used, Append(texts, q.text))

\* quoted_env: each quoted string after an --env
RECURSIVE env_flags(_)
env_flags(texts) ==
    IF texts = <<>> THEN <<>>
    ELSE <<ENV_FLAG, Head(texts)>> \o env_flags(Tail(texts))

\* lines 229-230, q being what sub_and_quote returned for step.dir_
join_workdir(q) ==
    IF q.err # NoError THEN q
    ELSE [err |-> NoError, text |-> os_path_join(WORKSPACE, q.text),
          used |-> q.used]

\* lines 227-230: the value of --workdir
get_workdir(step, substitutions, substitutions_used) ==
    IF step.dir_ = <<>>
    THEN [err |-> NoError, text |-> WORKSPACE, used |-> substitutions_used]
    ELSE join_workdir(sub_and_quote(step.dir_, substitutions,
                                    substitutions_used))

\* lines 231-243
process_args(workdir, quoted_env, quoted_name, quoted_args) ==
    DOCKER_RUN \o <<workdir>> \o env_flags(quoted_env) \o <<quoted_name>>
    \o quoted_args

\* generate_command from line 231 on
generate_command_4(quoted_args, quoted_env, quoted_name, workdir) ==
    IF workdir.err # NoError
    THEN [err |-> workdir.err, command |-> <<>>, used |-> workdir.used]
    ELSE [err |-> NoError,
          command |-> process_args(workdir.text, quoted_env.texts,
                                   quoted_name.text, quoted_args.texts),
          used |-> workdir.used]

\* generate_command from line 227 on
generate_command_3(step, substitutions, quoted_args, quoted_env, quoted_name) ==
    IF quoted_name.err # NoError
    THEN [err |-> quoted_name.err, command |-> <<>>,
          used |-> quoted_name.used]
    ELSE generate_command_4(quoted_args, quoted_env, quoted_name,
             get_workdir(step, substitutions, quoted_name.used))

\* generate_command from line 226 on
generate_command_2(step, substitutions, quoted_args, quoted_env) ==
    IF quoted_env.err # NoError
    THEN [err |-> quoted_env.err, command |-> <<>>, used |-> quoted_env.used]
    ELSE generate_command_3(step, substitutions, quoted_args, quoted_env,
             sub_and_quote(step.name, substitutions, quoted_env.used))

\* generate_command from line 222 on
generate_command_1(step, substitutions, quoted_args) ==
    IF quoted_args.err # NoError
    THEN [err |-> quoted_args.err, command |-> <<>>,
          used |-> quoted_args.used]
    ELSE generate_command_2(step, substitutions, quoted_args,
             sub_and_quote_all(step.env, substitutions, quoted_args.used,
                               <<>>))

\* err is NoError and command the list of tokens, or err is the exception;
\* used is substitutions_used after the call either way
generate_command(step, substitutions, substitutions_used) ==
    generate_command_1(step, substitutions,
        sub_and_quote_all(step.args, substitutions, substitutions_used, <<>>))

(***************************************************************************)
(* generate_script                                                         *)
(***************************************************************************)
cleanup_step ==
    Step(<<<<"r", "m">>, <<"-", "r", "f">>, WORKSPACE>>, <<>>, <<>>,
         DEBIAN_IMAGE)

\* [generate_command(step, substitutions, subs_used) for step in steps],
\* commands holding the commands so far
RECURSIVE get_docker_commands(_, _, _, _)
RECURSIVE get_docker_commands_rest(_, _, _, _)
get_docker_commands(steps, substitutions, subs_used, commands) ==
    IF steps = <<>>
    THEN [err |-> NoError, commands |-> commands, used |-> subs_used]
    ELSE get_docker_commands_rest(Tail(steps), substitutions, commands,
             generate_command(Head(steps), substitutions, subs_used))

\* the same after the call of generate_command that returned c
get_docker_commands_rest(steps, substitutions, commands, c) ==
    IF c.err # NoError
    THEN [err |-> c.err, commands |-> <<>>, used |-> c.used]
    ELSE get_docker_commands(steps, substitutions, c.used,
                             Append(commands, c.command))

\* user_subs_unused with every unused name taken for a user variable
user_subs_unused_any_name(substitutions, subs_used) ==
    SelectSeq(dict_keys(substitutions), LAMBDA name : name \notin subs_used)

user_subs_unused(substitutions, subs_used) ==
    SelectSeq(dict_keys(substitutions),
              LAMBDA name : name \notin subs_used /\ name[1] = "_")

\* docker_lines with the commands in reverse order
RECURSIVE get_docker_lines_reversed(_)
get_docker_lines_reversed(docker_commands) ==
    IF docker_commands = <<>> THEN <<>>
    ELSE get_docker_lines_reversed(Tail(docker_commands))
         \o <<join(<<" ">>, Head(docker_commands)) \o <<"\n", "\n">> >>

RECURSIVE get_docker_lines(_)
get_docker_lines(docker_commands) ==
    IF docker_commands = <<>> THEN <<>>
    ELSE <<join(<<" ">>, Head(docker_commands)) \o <<"\n", "\n">> >>
         \o get_docker_lines(Tail(docker_commands))

NoScript == BUILD_SCRIPT_TEMPLATE(<<>>, <<>>)

\* lines 279-288
render_script(cleanup_command, docker_commands) ==
    BUILD_SCRIPT_TEMPLATE(join(<<" ">>, cleanup_command),
                          concat(get_docker_lines(docker_commands)))

\* generate_script from line 269 on, with the unused variables checked
\* before the errors of the commands
check_and_render_check_first(build, cleanup_command, docker_commands) ==
    IF user_subs_unused(build.substitutions, docker_commands.used) # <<>>
    THEN [err |-> ValueError("unused",
                      sorted(user_subs_unused(build.substitutions,
                                              docker_commands.used))),
          script |-> NoScript]
    ELSE IF cleanup_command.err # NoError
    THEN [err |-> cleanup_command.err, script |-> NoScript]
    ELSE IF docker_commands.err # NoError
    THEN [err |-> docker_commands.err, script |-> NoScript]
    ELSE [err |-> NoError,
          script |-> render_script(cleanup_command.command,
                                   docker_commands.commands)]

\* generate_script from line 269 on, given the outcomes of lines 263-267
check_and_render(build, cleanup_command, docker_commands) ==
    IF cleanup_command.err # NoError
    THEN [err |-> cleanup_command.err, script |-> NoScript]
    ELSE IF docker_commands.err # NoError
    THEN [err |-> docker_commands.err, script |-> NoScript]
    ELSE IF user_subs_unused(build.substitutions, docker_commands.used) # <<>>
    THEN [err |-> ValueError("unused",
                      sorted(user_subs_unused(build.substitutions,
                                              docker_commands.used))),
          script |-> NoScript]
    ELSE [err |-> NoError,
          script |-> render_script(cleanup_command.command,
                                   docker_commands.commands)]

\* err is NoError and script the text, or err is the exception
generate_script(build) ==
    check_and_render(build,
        generate_command(cleanup_step, <<>>, {}),
        get_docker_commands(build.steps, build.substitutions, {}, <<>>))

(***************************************************************************)
(* The output file and the child process                                   *)
(***************************************************************************)
RECURSIVE bit_and(_, _)
bit_and(a, b) ==
    IF a = 0 \/ b = 0 THEN 0
    ELSE (a % 2) * (b % 2) + 2 * bit_and(a \div 2, b \div 2)

RECURSIVE bit_or(_, _)
bit_or(a, b) ==
    IF a = 0 THEN b
    ELSE IF b = 0 THEN a
    ELSE (IF a % 2 = 1 \/ b % 2 = 1 THEN 1 ELSE 0)
         + 2 * bit_or(a \div 2, b \div 2)

\* the mode make_executable sets: mode | ((mode & 0o444) >> 2)
make_executable(mode) == bit_or(mode, bit_and(mode, 292) \div 4)

File(exists, text, mode) == [exists |-> exists, text |-> text, mode |-> mode]

\* io.open(path, 'w'): an existing file is truncated and keeps its mode, a
\* new one gets the mode the umask leaves
open_w(file, create_mode) ==
    IF file.exists THEN File(TRUE, <<>>, file.mode)
    ELSE File(TRUE, <<>>, create_mode)

NoRaw == [tag |-> "none"]

IOError == [kind |-> "io", names |-> <<>>]

CalledProcessError == [kind |-> "child", names |-> <<>>]

(***************************************************************************)
(* Inputs                                                                  *)
(***************************************************************************)
\* the values of --substitutions of the runs
RunSubstitutions == {
    <<>>,
    <<[k |-> <<"_", "A">>, v |-> <<"x">>]>>,
    <<[k |-> <<"_", "B">>, v |-> <<"b">>], [k |-> <<"_", "A">>, v |-> <<"a", " ", "b">>]>>}

\* the elements of `steps` in cloudbuild.yaml
RawSteps == {
    RawDict([name |-> RawStr(<<"a">>)]),
    RawDict([name |-> RawStr(<<"$", "_", "A">>), args |-> RawList(<<RawStr(<<"b">>), RawStr(<<"$", "$">>)>>)]),
    RawDict([name |-> RawStr(<<"a">>), dir |-> RawStr(<<"/", "A">>), env |-> RawList(<<RawStr(<<"$", "{", "_", "B", "}">>)>>)]),
    RawDict([name |-> RawStr(<<"$", "U">>), args |-> RawList(<<RawStr(<<"$", "_", "A">>)>>)]),
    RawStr(<<"a">>),
    RawDict([name |-> RawList(<<RawStr(<<"a">>)>>)]),
    RawDict([name |-> RawStr(<<"a">>), args |-> RawStr(<<"b">>)]),
    RawDict([name |-> RawStr(<<"a">>), args |-> RawList(<<RawStr(<<"b">>), RawInt(1)>>)]),
    RawDict([name |-> RawStr(<<"a">>), dir |-> RawInt(1)]),
    RawDict([name |-> RawStr(<<"a">>), env |-> RawList(<<RawList(<<>>)>>)])}

RawStepLists == UNION {[1..n -> RawSteps] : n \in 0..MaxSteps}

\* what yaml.safe_load can return
RawConfigs ==
    {RawDict([steps |-> RawList(l)]) : l \in RawStepLists}
    \cup {RawList(<<>>),
          RawStr(<<"a">>),
          RawDict([images |-> RawList(<<>>)]),
          RawDict([steps |-> RawStr(<<"a">>)])}

\* a script written by an earlier run
OlderScript == BUILD_SCRIPT_TEMPLATE(<<"o", "l", "d">>, <<>>)

\* the file at the output path when the run starts: 0o644 is 420
InitialFiles == {File(FALSE, <<>>, 0), File(TRUE, <<OlderScript>>, 420)}

\* the modes of a new file under umask 022 and 077
CreateModes == {420, 384}

\* the validated steps generate_script is given
GenSteps == {
    Step(<<>>, <<>>, <<>>, <<"a">>),
    Step(<<>>, <<>>, <<>>, <<"$", "_", "A">>),
    Step(<<>>, <<>>, <<>>, <<"$", "P", "R", "O", "J", "E", "C", "T", "_", "I", "D">>),
    Step(<<<<"$", "{", "_", "B", "}">>>>, <<>>, <<>>, <<"a">>),
    Step(<<<<"b">>, <<"$", "$", "_", "A">>>>, <<>>, <<>>, <<"a">>),
    Step(<<<<"$", "U">>, <<"$", "_", "A">>>>, <<>>, <<>>, <<"a">>),
    Step(<<>>, <<>>, <<<<"A", "=", "$", "_", "A">>>>, <<"a">>),
    Step(<<>>, <<"s", "u", "b">>, <<>>, <<"a">>),
    Step(<<>>, <<"/", "A">>, <<>>, <<"a">>),
    Step(<<>>, <<"$", "_", "B", " ", "b">>, <<>>, <<"a">>),
    Step(<<<<"$", "_", "B">>>>, <<"$", "{", "_", "A", "}">>, <<<<"$", "$">>>>, <<"$", "_", "A">>),
    Step(<<>>, <<>>, <<>>, <<"$", "U">>)}

GenStepLists == UNION {[1..n -> GenSteps] : n \in 1..MaxSteps}

GenSubstitutions == {
    <<>>,
    <<[k |-> <<"_", "A">>, v |-> <<"x">>]>>,
    <<[k |-> <<"_", "B">>, v |-> <<"b">>], [k |-> <<"_", "A">>, v |-> <<"a", " ", "b">>]>>,
    <<[k |-> <<"P", "R", "O", "J", "E", "C", "T", "_", "I", "D">>, v |-> <<"p">>], [k |-> <<"_", "A">>, v |-> <<"'">>]>>,
    <<[k |-> <<"A">>, v |-> <<"x">>], [k |-> <<"_", "B">>, v |-> <<>>]>>,
    <<[k |-> <<"U">>, v |-> <<"u">>], [k |-> <<"_", "C">>, v |-> <<"c">>], [k |-> <<"_", "B">>, v |-> <<"/">>]>>}

\* the strings and tables sub_and_quote is given
CallChars == {"$", "{", "}", "A", "_", "a"}

CallStrings == UNION {[1..n -> CallChars] : n \in 0..MaxLen}

CallSubstitutions == {
    <<>>,
    <<[k |-> <<"A">>, v |-> <<"a", " ", "b">>]>>,
    <<[k |-> <<"_">>, v |-> <<"$", "A">>], [k |-> <<"A">>, v |-> <<>>]>>,
    <<[k |-> <<"A", "A">>, v |-> <<"'">>], [k |-> <<"A", "_">>, v |-> <<"a">>]>>}

CallUsed == {{}, {<<"A">>}}

NoCall == [err |-> NoError, text |-> <<>>, used |-> {}]

(***************************************************************************)
(* local_cloudbuild                                                        *)
(***************************************************************************)
Namespace(run, substitutions) ==
    [config |-> "cloudbuild.yaml",
     output_script |-> "cloudbuild.yaml_local.sh",
     run |-> run,
     substitutions |-> substitutions]

NoCallVars ==
    /\ call_s = <<>>
    /\ call_subs = <<>>
    /\ call_used = {}
    /\ call_result = NoCall

Init ==
    /\ pc = "load"
    /\ args \in {Namespace(run, substitutions) :
                     run \in BOOLEAN, substitutions \in RunSubstitutions}
    /\ raw_config = NoRaw
    /\ cloudbuild = NoCloudBuild
    /\ contents = NoScript
    /\ outfile \in InitialFiles
    /\ children = 0
    /\ exits = <<>>
    /\ failure = NoError
    /\ NoCallVars

Fail(err) ==
    /\ pc' = "failed"
    /\ failure' = err

\* lines 314-315
LoadConfig ==
    /\ pc = "load"
    /\ \E raw \in RawConfigs : raw_config' = raw
    /\ pc' = "get_cloudbuild"
    /\ UNCHANGED <<args, cloudbuild, contents, outfile, children, exits,
                   failure, call_vars>>

LoadConfigFails ==
    /\ pc = "load"
    /\ Fail(IOError)
    /\ UNCHANGED <<args, raw_config, cloudbuild, contents, outfile, children,
                   exits, call_vars>>

\* line 318, r being what get_cloudbuild returned or raised
GetCloudbuildReturns(r) ==
    IF r.err # NoError
    THEN Fail(r.err) /\ UNCHANGED cloudbuild
    ELSE /\ cloudbuild' = r.cloudbuild
         /\ pc' = "generate_script"
         /\ UNCHANGED failure

GetCloudbuild ==
    /\ pc = "get_cloudbuild"
    /\ GetCloudbuildReturns(get_cloudbuild(raw_config, args))
    /\ UNCHANGED <<args, raw_config, contents, outfile, children, exits,
                   call_vars>>

\* line 321, r being what generate_script returned or raised
GenerateScriptReturns(r) ==
    IF r.err # NoError
    THEN Fail(r.err) /\ UNCHANGED contents
    ELSE /\ contents' = r.script
         /\ pc' = "write_script"
         /\ UNCHANGED failure

\* line 321, with the output file created before the script is generated
GenerateScriptFileFirst ==
    /\ pc = "generate_script"
    /\ GenerateScriptReturns(generate_script(cloudbuild))
    /\ \E create_mode \in CreateModes : outfile' = open_w(outfile, create_mode)
    /\ UNCHANGED <<args, raw_config, cloudbuild, children, exits, call_vars>>

GenerateScript ==
    /\ pc = "generate_script"
    /\ GenerateScriptReturns(generate_script(cloudbuild))
    /\ UNCHANGED <<args, raw_config, cloudbuild, outfile, children, exits,
                   call_vars>>

\* write_script, line 302
OpenScript ==
    /\ pc = "write_script"
    /\ \E create_mode \in CreateModes : outfile' = open_w(outfile, create_mode)
    /\ pc' = "write"
    /\ UNCHANGED <<args, raw_config, cloudbuild, contents, children, exits,
                   failure, call_vars>>

OpenScriptFails ==
    /\ pc = "write_script"
    /\ Fail(IOError)
    /\ UNCHANGED <<args, raw_config, cloudbuild, contents, outfile, children,
                   exits, call_vars>>

\* write_script, line 303 and the end of the with block
WriteContents ==
    /\ pc = "write"
    /\ outfile' = [outfile EXCEPT !.text = Append(@, contents)]
    /\ pc' = "make_executable"
    /\ UNCHANGED <<args, raw_config, cloudbuild, contents, children, exits,
                   failure, call_vars>>

\* write_script, line 304
MakeExecutable ==
    /\ pc = "make_executable"
    /\ outfile' = [outfile EXCEPT !.mode = make_executable(@)]
    /\ pc' = "run"
    /\ UNCHANGED <<args, raw_config, cloudbuild, contents, children, exits,
                   failure, call_vars>>

\* lines 325-328 with the test of cloudbuild.run left out
RunScriptAlways ==
    /\ pc = "run"
    /\ children' = children + 1
    /\ pc' = "wait"
    /\ UNCHANGED <<args, raw_config, cloudbuild, contents, outfile, exits,
                   failure, call_vars>>

\* lines 325-328, up to the start of the child
RunScript ==
    /\ pc = "run"
    /\ IF cloudbuild.run
       THEN children' = children + 1 /\ pc' = "wait"
       ELSE UNCHANGED children /\ pc' = "done"
    /\ UNCHANGED <<args, raw_config, cloudbuild, contents, outfile, exits,
                   failure, call_vars>>

\* line 328: subprocess.check_call returns or raises when the child exits
ChildExit ==
    /\ pc = "wait"
    /\ \E returncode \in {0, 1} :
        /\ exits' = Append(exits, returncode)
        /\ IF returncode = 0
           THEN pc' = "done" /\ UNCHANGED failure
           ELSE Fail(CalledProcessError)
    /\ UNCHANGED <<args, raw_config, cloudbuild, contents, outfile, children,
                   call_vars>>

Next ==
    \/ LoadConfig
    \/ LoadConfigFails
    \/ GetCloudbuild
    \/ GenerateScript
    \/ OpenScript
    \/ OpenScriptFails
    \/ WriteContents
    \/ MakeExecutable
    \/ RunScript
    \/ ChildExit

Spec == Init /\ [][Next]_vars

(***************************************************************************)
(* generate_script on its own                                              *)
(***************************************************************************)
InitGen ==
    /\ pc = "generate_script"
    /\ \E steps \in GenStepLists, substitutions \in GenSubstitutions :
        /\ args = Namespace(TRUE, substitutions)
        /\ cloudbuild = CloudBuild(args.output_script, args.run, steps,
                                   substitutions)
    /\ raw_config = NoRaw
    /\ contents = NoScript
    /\ outfile = File(FALSE, <<>>, 0)
    /\ children = 0
    /\ exits = <<>>
    /\ failure = NoError
    /\ NoCallVars

NextGen == GenerateScript

SpecGen == InitGen /\ [][NextGen]_vars

(***************************************************************************)
(* sub_and_quote on its own                                                *)
(***************************************************************************)
InitSub ==
    /\ pc = "sub_and_quote"
    /\ call_s \in CallStrings
    /\ call_subs \in CallSubstitutions
    /\ call_used \in CallUsed
    /\ call_result = NoCall
    /\ args = Namespace(FALSE, <<>>)
    /\ raw_config = NoRaw
    /\ cloudbuild = NoCloudBuild
    /\ contents = NoScript
    /\ outfile = File(FALSE, <<>>, 0)
    /\ children = 0
    /\ exits = <<>>
    /\ failure = NoError

SubAndQuote ==
    /\ pc = "sub_and_quote"
    /\ call_result' = sub_and_quote(call_s, call_subs, call_used)
    /\ pc' = "returned"
    /\ UNCHANGED <<args, raw_config, cloudbuild, contents, outfile, children,
                   exits, failure, call_s, call_subs, call_used>>

NextSub == SubAndQuote

SpecSub == InitSub /\ [][NextSub]_vars

(***************************************************************************)
(* The tokens of a string, as section 4.3 of the specification states them *)
(***************************************************************************)
\* the tokens of s from s[i] on, left to right: at and last are the indexes
\* of a token's first and last characters, name is NAME, or "$" for "$$"
RECURSIVE tokens_from(_, _)
RECURSIVE tokens_after(_, _, _)
tokens_from(s, i) ==
    IF i > Len(s) THEN <<>>
    ELSE tokens_after(s, i, SUBSTITUTION_REGEX(s, i))

tokens_after(s, i, m) ==
    IF m.matched
    THEN <<[at |-> i, last |-> m.last, name |-> strip_curly(m.group)]>>
         \o tokens_from(s, m.last + 1)
    ELSE tokens_from(s, i + 1)

Tokens(s) == tokens_from(s, 1)

IsVariable(token) == token.name # <<"$">>

\* the tokens of toks whose NAME is not a key of table
UndefinedTokens(toks, table) ==
    SelectSeq(toks, LAMBDA k : IsVariable(k) /\ ~dict_has(table, k.name))

\* the names the tokens toks refer to
TokenNames(toks) == {toks[j].name : j \in {j \in DOMAIN toks : IsVariable(toks[j])}}

\* s from s[i] on with each token of toks replaced by its value
RECURSIVE Resolved(_, _, _, _)
Resolved(s, i, toks, table) ==
    IF toks = <<>> THEN SubSeq(s, i, Len(s))
    ELSE SubSeq(s, i, Head(toks).at - 1)
         \o (IF IsVariable(Head(toks)) THEN dict_get(table, Head(toks).name)
             ELSE <<"$">>)
         \o Resolved(s, Head(toks).last + 1, Tail(toks), table)

(***************************************************************************)
(* Claims about sub_and_quote, under SpecSub                               *)
(***************************************************************************)
C3_Outcome(s, table, toks, undefined, r) ==
    IF undefined # <<>>
    THEN r.err = ValueError("undefined", <<undefined[1].name>>) /\ r.text = <<>>
    ELSE r.err = NoError /\ r.text = shlex_quote(Resolved(s, 1, toks, table))

C3_Checked(s, table, toks, r) ==
    C3_Outcome(s, table, toks, UndefinedTokens(toks, table), r)

\* C3: when the string has a token $NAME or ${NAME} whose NAME is not a key
\* of the table, sub_and_quote fails with the undefined-variable error that
\* names the leftmost such NAME and returns no text; when every NAME is a
\* key it succeeds and returns the quoted string with each token replaced by
\* the table's value.
C3_UndefinedVariableFails ==
    pc = "returned" => C3_Checked(call_s, call_subs, Tokens(call_s), call_result)

\* C3: a call has returned for a string with a defined token before an
\* undefined one, and has failed.
C3_Witness ==
    /\ pc = "returned"
    /\ call_s = <<"$", "A", "$", "_">>
    /\ call_subs = <<[k |-> <<"A">>, v |-> <<"a", " ", "b">>]>>
    /\ call_result.err = ValueError("undefined", <<<<"_">>>>)

C4_Checked(s, table, toks, r) ==
    (toks # <<>> /\ \A j \in DOMAIN toks : ~IsVariable(toks[j]))
    => /\ r.err = NoError
       /\ r.text = shlex_quote(Resolved(s, 1, toks, table))
       /\ r.used = call_used

\* C4: resolving a string whose only tokens are $$ replaces each $$ by one
\* literal $ and leaves the set of used names as it was.
C4_DollarNotRecorded ==
    pc = "returned" => C4_Checked(call_s, call_subs, Tokens(call_s), call_result)

(***************************************************************************)
(* Claims about generate_script, under SpecGen                             *)
(***************************************************************************)
\* the strings of a step that generate_command resolves, in its order
StepStrings(step) ==
    step.args \o step.env \o <<step.name>>
    \o (IF step.dir_ = <<>> THEN <<>> ELSE <<step.dir_>>)

\* the names that the strings strs refer to as $NAME or ${NAME}
NamesIn(strs) == UNION {TokenNames(Tokens(strs[j])) : j \in DOMAIN strs}

\* the names that some field of some step refers to
Referenced(steps) ==
    UNION {NamesIn(StepStrings(steps[i])) : i \in DOMAIN steps}

\* every token of every step refers to a key of table
AllResolve(steps, table) ==
    \A name \in Referenced(steps) : dict_has(table, name)

\* the keys of table that start with _ and that no step refers to
Unreferenced(steps, table) ==
    {table[i].k : i \in {i \in DOMAIN table :
                             /\ table[i].k[1] = "_"
                             /\ table[i].k \notin Referenced(steps)}}

\* the indexes at which a line of text that is not empty starts
LineStarts(text) ==
    {i \in DOMAIN text : text[i] # "\n" /\ (i = 1 \/ text[i - 1] = "\n")}

\* the line of text that starts at text[i]
LineAt(text, i) ==
    SubSeq(text, i,
           CHOOSE e \in i..Len(text) :
               /\ \A j \in i..e : text[j] # "\n"
               /\ e = Len(text) \/ text[e + 1] = "\n")

NthOf(set, n) == CHOOSE i \in set : Cardinality({j \in set : j <= i}) = n

\* the lines of text that are not empty, in order
LinesOf(text) ==
    [n \in 1..Cardinality(LineStarts(text)) |->
        LineAt(text, NthOf(LineStarts(text), n))]

\* the command of the cleanup step, as the specification gives it
CleanupLine == <<
    "d", "o", "c", "k", "e", "r", " ", "r", "u", "n", " ", "-",
    "-", "v", "o", "l", "u", "m", "e", " ", "/", "v", "a", "r",
    "/", "r", "u", "n", "/", "d", "o", "c", "k", "e", "r", ".",
    "s", "o", "c", "k", ":", "/", "v", "a", "r", "/", "r", "u",
    "n", "/", "d", "o", "c", "k", "e", "r", ".", "s", "o", "c",
    "k", " ", "-", "-", "v", "o", "l", "u", "m", "e", " ", "/",
    "r", "o", "o", "t", "/", ".", "d", "o", "c", "k", "e", "r",
    ":", "/", "r", "o", "o", "t", "/", ".", "d", "o", "c", "k",
    "e", "r", " ", "-", "-", "v", "o", "l", "u", "m", "e", " ",
    "$", "{", "H", "O", "S", "T", "_", "W", "O", "R", "K", "S",
    "P", "A", "C", "E", "}", ":", "/", "w", "o", "r", "k", "s",
    "p", "a", "c", "e", " ", "-", "-", "w", "o", "r", "k", "d",
    "i", "r", " ", "/", "w", "o", "r", "k", "s", "p", "a", "c",
    "e", " ", "g", "c", "r", ".", "i", "o", "/", "g", "o", "o",
    "g", "l", "e", "-", "a", "p", "p", "e", "n", "g", "i", "n",
    "e", "/", "d", "e", "b", "i", "a", "n", "8", " ", "r", "m",
    " ", "-", "r", "f", " ", "/", "w", "o", "r", "k", "s", "p",
    "a", "c", "e">>

Generated == pc # "generate_script"

C1_Script(steps, table, lines) ==
    /\ failure = NoError
    /\ pc = "write_script"
    /\ Len(lines) = Len(steps)
    /\ \A i \in DOMAIN steps :
           lines[i] = join(<<" ">>, generate_command(steps[i], table, {}).command)
    /\ LinesOf(contents.cleanup_str) = <<CleanupLine>>

\* C1: for a model of n >= 1 steps whose substitutions all resolve and whose
\* user substitutions are all used, generate_script returns a script whose
\* build commands are exactly n lines, the i-th the command generated for the
\* i-th step, and whose exit trap holds exactly the one cleanup command.
C1_OneLinePerStep ==
    (/\ Generated
     /\ AllResolve(cloudbuild.steps, cloudbuild.substitutions)
     /\ Unreferenced(cloudbuild.steps, cloudbuild.substitutions) = {})
    => C1_Script(cloudbuild.steps, cloudbuild.substitutions,
                 LinesOf(contents.docker_str))

\* C1: a script was generated for two different steps, with substitutions.
C1_Witness ==
    /\ pc = "write_script"
    /\ Len(cloudbuild.steps) = 2
    /\ cloudbuild.steps[1] # cloudbuild.steps[2]
    /\ cloudbuild.steps[1].args # <<>>
    /\ cloudbuild.substitutions # <<>>
    /\ Len(LinesOf(contents.docker_str)) = 2

\* the builtin defaults overridden by the user's mapping
Merged(defaults, user) ==
    [i \in DOMAIN defaults |->
        IF dict_has(user, defaults[i].k)
        THEN [k |-> defaults[i].k, v |-> dict_get(user, defaults[i].k)]
        ELSE defaults[i]]
    \o SelectSeq(user, LAMBDA e : ~dict_has(defaults, e.k))

C2_SameAs(r) == failure = r.err /\ contents = r.script

\* C2: the step strings are resolved against the builtin defaults overridden
\* by the user's mapping: generate_script fails or returns what it would
\* with that table, so a builtin name the user did not supply resolves to
\* its default and does not fail.
C2_DefaultsApplied ==
    Generated =>
        C2_SameAs(generate_script(
            [cloudbuild EXCEPT !.substitutions =
                Merged(DEFAULT_SUBSTITUTIONS, cloudbuild.substitutions)]))

IsSortedListOf(names, set) ==
    /\ Len(names) = Cardinality(set)
    /\ {names[i] : i \in DOMAIN names} = set
    /\ \A i, j \in DOMAIN names : i < j => str_lt(names[i], names[j])

C5_Checked(unreferenced) ==
    /\ failure.kind = "unused" <=> unreferenced # {}
    /\ failure.kind = "unused" => IsSortedListOf(failure.names, unreferenced)

\* C5: when every step string resolves, generate_script fails with the
\* unused-substitution error exactly when some key that starts with _ is
\* referred to by no field of any step, and the error lists exactly those
\* keys, each once, sorted.
C5_UnusedListed ==
    (Generated /\ AllResolve(cloudbuild.steps, cloudbuild.substitutions))
    => C5_Checked(Unreferenced(cloudbuild.steps, cloudbuild.substitutions))

\* C5: generate_script has failed listing two unused keys that the table
\* holds in the other order.
C5_Witness ==
    /\ pc = "failed"
    /\ failure.kind = "unused"
    /\ Len(failure.names) = 2
    /\ failure.names[1] = cloudbuild.substitutions[2].k

\* the value --workdir has by the claim
C8_Workdir(step, table) ==
    IF step.dir_ = <<>> THEN WORKSPACE
    ELSE WORKSPACE \o <<"/">> \o sub_and_quote(step.dir_, table, {}).text

HasPrefix(line, prefix) ==
    Len(line) >= Len(prefix) /\ SubSeq(line, 1, Len(prefix)) = prefix

C8_Lines(steps, table, lines) ==
    \A i \in DOMAIN steps :
        HasPrefix(lines[i],
                  join(<<" ">>, DOCKER_RUN \o <<C8_Workdir(steps[i], table)>>)
                  \o <<" ">>)

\* C8: in the command of every step the value after --workdir is /workspace
\* when dir is empty and otherwise /workspace/ followed by the resolved and
\* quoted dir.
C8_WorkdirBelowWorkspace ==
    pc = "write_script" =>
        C8_Lines(cloudbuild.steps, cloudbuild.substitutions,
                 LinesOf(contents.docker_str))

C9_Checked(resolve, unreferenced) ==
    /\ ~resolve => failure.kind = "undefined"
    /\ failure.kind = "unused" =>
           resolve /\ {failure.names[i] : i \in DOMAIN failure.names}
                      = unreferenced

\* C9: when some step, first or last, refers to an undefined variable,
\* generate_script fails with the undefined-variable error whether or not a
\* user substitution is unused; the unused-substitution error is raised only
\* when all steps resolved, with the names no step used.
C9_UnusedCheckedLast ==
    Generated =>
        C9_Checked(AllResolve(cloudbuild.steps, cloudbuild.substitutions),
                   Unreferenced(cloudbuild.steps, cloudbuild.substitutions))

\* C9: the build has an unused user substitution, its first step resolves,
\* its last step refers to an undefined variable, and generate_script has
\* failed with the undefined-variable error.
C9_Witness ==
    /\ pc = "failed"
    /\ failure.kind = "undefined"
    /\ Len(cloudbuild.steps) = 2
    /\ AllResolve(<<cloudbuild.steps[1]>>, cloudbuild.substitutions)
    /\ Unreferenced(cloudbuild.steps, cloudbuild.substitutions) # {}

(***************************************************************************)
(* Claims about local_cloudbuild and get_cloudbuild, under Spec            *)
(***************************************************************************)
ValidationKinds == {"type", "no_steps", "undefined", "unused"}

C6_Step ==
    /\ (outfile' # outfile \/ children' # children) =>
           /\ pc \in {"write_script", "write", "make_executable", "run"}
           /\ cloudbuild # NoCloudBuild
           /\ contents # NoScript
           /\ failure = NoError
    /\ failure'.kind \in ValidationKinds =>
           /\ pc' = "failed"
           /\ outfile' = outfile
           /\ outfile' \in InitialFiles
           /\ children' = 0

\* C6: the output file is opened for writing only after get_cloudbuild and
\* generate_script have both returned; a run that ends with a validation,
\* undefined-variable or unused-substitution error leaves the file at the
\* output path as it was and starts no child.
C6_NothingWrittenOnError == [][C6_Step]_vars

\* C6: a run has failed on an unused substitution with an older script at
\* the output path, which is still there.
C6_Witness ==
    /\ pc = "failed"
    /\ failure.kind = "unused"
    /\ outfile = File(TRUE, <<OlderScript>>, 420)

\* a field of a raw mapping is absent or has the type
FieldIs(d, field, type) == field \notin DOMAIN d \/ d[field].tag = type

\* a field of a raw mapping is absent or a list of strings
FieldIsStrings(d, field) ==
    /\ FieldIs(d, field, "list")
    /\ field \in DOMAIN d =>
           \A j \in DOMAIN d[field].list : d[field].list[j].tag = "str"

\* the raw step validates, by sections 4.1 and 6 of the specification
ValidStep(raw) ==
    /\ raw.tag = "dict"
    /\ FieldIsStrings(raw.dict, "args")
    /\ FieldIs(raw.dict, "dir", "str")
    /\ FieldIsStrings(raw.dict, "env")
    /\ FieldIs(raw.dict, "name", "str")

HasSteps(raw) ==
    raw.tag = "dict" /\ "steps" \in DOMAIN raw.dict
    /\ raw.dict.steps.tag = "list"

C7_Checked ==
    /\ (HasSteps(raw_config) /\ raw_config.dict.steps.list = <<>>) =>
           /\ pc = "failed"
           /\ failure.kind = "no_steps"
           /\ cloudbuild = NoCloudBuild
           /\ contents = NoScript
           /\ outfile \in InitialFiles
    /\ cloudbuild # NoCloudBuild =>
           /\ HasSteps(raw_config)
           /\ raw_config.dict.steps.list # <<>>
           /\ \A i \in DOMAIN raw_config.dict.steps.list :
                  ValidStep(raw_config.dict.steps.list[i])
           /\ Len(cloudbuild.steps) = Len(raw_config.dict.steps.list)

\* C7: get_cloudbuild on a mapping whose steps are an empty list fails with
\* the no-steps error and returns no model, so that no script is generated
\* or written; it returns a model only when the root is a mapping, steps is
\* a list that is not empty and every step of it validates.
C7_NoStepsNoModel == pc \notin {"load", "get_cloudbuild"} => C7_Checked

\* C7: a run on a recipe with an empty list of steps has failed, with an
\* older script at the output path.
C7_Witness ==
    /\ pc = "failed"
    /\ failure.kind = "no_steps"
    /\ raw_config = RawDict([steps |-> RawList(<<>>)])
    /\ outfile.exists

\* the owner may execute a file of this mode
IsExecutable(mode) == (mode \div 64) % 2 = 1

C10_Step ==
    /\ children' # children =>
           /\ children = 0
           /\ children' = 1
           /\ args.run
           /\ pc = "run"
           /\ outfile.text = <<contents>>
           /\ IsExecutable(outfile.mode)
    /\ (exits' # exits /\ exits'[Len(exits')] # 0) =>
           pc' = "failed" /\ failure'.kind = "child"
    /\ pc' = "done" => (exits' = <<>> \/ exits' = <<0>>)
    /\ Len(exits') <= children'

\* C10: the script is run as a child at most once, only when the run flag is
\* true and only after it was written and made executable; when the child
\* exits with a status that is not zero the run ends in failure.
C10_RunOnceAfterWrite == [][C10_Step]_vars

\* C10: the child has exited with a status that is not zero and the run has
\* failed.
C10_Witness ==
    /\ pc = "failed"
    /\ failure.kind = "child"
    /\ children = 1
    /\ exits = <<1>>

====
